---- MODULE Spec2Model ----
(***************************************************************************)
(* Order-book slippage aggregation (PySpark notebook).                     *)
(*                                                                         *)
(* The notebook splits a table of book levels into a bid book and an ask   *)
(* book, walks every (exchangeTimestamp, side) ladder with two window      *)
(* aggregates, computes three slippage metrics per row, joins the two      *)
(* books on exchangeTimestamp and reduces every timestamp to one record    *)
(* with first(..., ignorenulls=True).                                      *)
(*                                                                         *)
(* Column values are Spark doubles; they are modelled as exact rationals   *)
(* <<numerator, denominator>> in lowest terms, and SQL NULL as Null.       *)
(* Rounding of binary floating point is outside the model.                 *)
(***************************************************************************)
EXTENDS Integers, Sequences, FiniteSets, TLC

VARIABLES
    cost_basis,   \* the configured notional (6.1), a rational
    trades,       \* the ingested table: a sequence of book levels
    bid_book,     \* DataFrame: a set of rows (records)
    ask_book,     \* DataFrame: a set of rows (records)
    orderbook,    \* DataFrame: joined rows, then one record per timestamp
    pc,           \* which notebook statement runs next
    previous,     \* the records the run before this one produced
    previous_trades,  \* the table the run before this one read
    runs          \* how many times the notebook has been started

vars ==
    <<cost_basis, trades, bid_book, ask_book, orderbook, pc, previous,
      previous_trades, runs>>

----------------------------------------------------------------------------
(* Bounds of the explored inputs.                                          *)

MaxLevels == 3      \* levels of one snapshot's book
MaxPrice == 3       \* prices are 1..MaxPrice
MaxQuantity == 2    \* quantities are 1..MaxQuantity
MaxAmount == 3      \* the notional is 1..MaxAmount
MaxTimestamp == 2   \* snapshot instants are 1..MaxTimestamp
MaxRuns == 2        \* runs of the notebook on one table

----------------------------------------------------------------------------
(* Column arithmetic: doubles as exact rationals, NULL propagating.        *)

Null == <<>>

Abs(x) == IF x < 0 THEN -x ELSE x

RECURSIVE GCD(_, _)
GCD(a, b) == IF b = 0 THEN a ELSE GCD(b, a % b)

\* the rational n/d in lowest terms with a positive denominator (d # 0)
Norm(n, d) ==
    LET g == GCD(Abs(n), Abs(d))
        s == IF d < 0 THEN -1 ELSE 1
    IN  <<(s * n) \div g, (s * d) \div g>>

lit(n) == <<n, 1>>

Add(a, b) ==
    IF a = Null \/ b = Null THEN Null
    ELSE Norm(a[1] * b[2] + b[1] * a[2], a[2] * b[2])

Neg(a) == IF a = Null THEN Null ELSE <<-a[1], a[2]>>

Sub(a, b) == Add(a, Neg(b))

\* cross-cancelled before multiplying, so that products stay small
Mul(a, b) ==
    IF a = Null \/ b = Null THEN Null
    ELSE LET g1 == GCD(Abs(a[1]), b[2])
             g2 == GCD(Abs(b[1]), a[2])
         IN  Norm((a[1] \div g1) * (b[1] \div g2), (a[2] \div g2) * (b[2] \div g1))

\* Spark SQL returns NULL for a division by zero
Div(a, b) ==
    IF a = Null \/ b = Null THEN Null
    ELSE IF b[1] = 0 THEN Null
    ELSE Mul(a, Norm(b[2], b[1]))

\* comparison columns used as a when() condition: NULL counts as not true
LtZero(a) == a # Null /\ a[1] < 0
NeZero(a) == a # Null /\ a[1] # 0

\* a < b, a <= b on non-null values
Less(a, b) == a[1] * b[2] < b[1] * a[2]
Leq(a, b) == a[1] * b[2] <= b[1] * a[2]

----------------------------------------------------------------------------
(* DataFrame helpers.                                                      *)

\* one choice of c[k] \in F[k] for every key k of K, as a function on K
RECURSIVE Choices(_, _)
Choices(K, F) ==
    IF K = {} THEN {<<>>}
    ELSE LET k == CHOOSE x \in K : TRUE
         IN  {(k :> o) @@ c : o \in F[k], c \in Choices(K \ {k}, F)}

Timestamps(df) == {r.exchangeTimestamp : r \in df}

\* Window.partitionBy("exchangeTimestamp"): the rows sharing r's timestamp
timestampWindow(df, ts) == {r \in df : r.exchangeTimestamp = ts}

Range(w) == {w[i] : i \in 1..Len(w)}

\* min() where max() is meant
MaxOf_lowest(S) == CHOOSE x \in S : \A y \in S : Leq(x, y)

\* max(col).over(timestampWindow), min(col).over(timestampWindow)
MaxOf(S) == CHOOSE x \in S : \A y \in S : Leq(y, x)
MinOf(S) == CHOOSE x \in S : \A y \in S : Leq(x, y)

\* a frame of the current row alone instead of (unboundedPreceding, 0)
RunningSum_current_row(vals, i) == vals[i]

\* sum(col).over(... .rowsBetween(Window.unboundedPreceding, 0)) at row i of
\* the ordered partition whose column values are vals[1..]
RECURSIVE RunningSum(_, _)
RunningSum(vals, i) ==
    IF i = 1 THEN vals[1] ELSE Add(RunningSum(vals, i - 1), vals[i])

\* orderBy(f.desc('bid_price')): the enumerations of a partition in descending
\* price; rows of equal price come in any order
RECURSIVE DescByBidPrice(_)
DescByBidPrice(P) ==
    IF P = {} THEN {<<>>}
    ELSE UNION {{<<x>> \o w : w \in DescByBidPrice(P \ {x})} :
                 x \in {y \in P : \A z \in P : Leq(z.bid_price, y.bid_price)}}

\* orderBy(f.asc('ask_price'))
RECURSIVE AscByAskPrice(_)
AscByAskPrice(P) ==
    IF P = {} THEN {<<>>}
    ELSE UNION {{<<x>> \o w : w \in AscByAskPrice(P \ {x})} :
                 x \in {y \in P : \A z \in P : Leq(y.ask_price, z.ask_price)}}

\* Window.partitionBy('exchangeTimestamp').orderBy(f.desc('bid_price'))
bid_window(df, ts) == DescByBidPrice(timestampWindow(df, ts))

\* Window.partitionBy('exchangeTimestamp').orderBy(f.asc('ask_price'))
ask_window(df, ts) == AscByAskPrice(timestampWindow(df, ts))

----------------------------------------------------------------------------
(* 6.2 / 6.3: the column expressions.                                      *)

\* the fill expression without its when(...).otherwise(0)
bid_slippage_unconditional(order_amount, cum_cost, cum_quantity, bid_quantity, bid_price) ==
    Add(Div(Sub(order_amount, Sub(cum_cost, Mul(bid_quantity, bid_price))), bid_price),
        Sub(cum_quantity, bid_quantity))

\* the row's own cost left inside cum_cost
bid_slippage_level_not_restored(order_amount, cum_cost, cum_quantity, bid_quantity, bid_price) ==
    IF LtZero(Sub(order_amount, cum_cost))
    THEN Add(Div(Sub(order_amount, cum_cost), bid_price), Sub(cum_quantity, bid_quantity))
    ELSE lit(0)

\* when(order_amount - cum_cost < 0,
\*      (order_amount - (cum_cost - quantity*price)) / price
\*        + (cum_quantity - quantity)).otherwise(0)
bid_slippage(order_amount, cum_cost, cum_quantity, bid_quantity, bid_price) ==
    IF LtZero(Sub(order_amount, cum_cost))
    THEN Add(Div(Sub(order_amount, Sub(cum_cost, Mul(bid_quantity, bid_price))),
                 bid_price),
             Sub(cum_quantity, bid_quantity))
    ELSE lit(0)

\* the crossing level taken whole, without the partial fill
ask_slippage_whole_level(order_amount, cum_cost, cum_quantity, ask_quantity, ask_price) ==
    IF LtZero(Sub(order_amount, cum_cost)) THEN cum_quantity ELSE lit(0)

ask_slippage(order_amount, cum_cost, cum_quantity, ask_quantity, ask_price) ==
    IF LtZero(Sub(order_amount, cum_cost))
    THEN Add(Div(Sub(order_amount, Sub(cum_cost, Mul(ask_quantity, ask_price))),
                 ask_price),
             Sub(cum_quantity, ask_quantity))
    ELSE lit(0)

\* when(slippage != 0, (desired_amount - slippage) * -1), NULL otherwise
sell_currency_slippage(slippage, desired_amount) ==
    IF NeZero(slippage) THEN Mul(Sub(desired_amount, slippage), lit(-1)) ELSE Null

\* the sell side without its * -1
sell_dollar_slippage_unsigned(slippage, order_amount, sell_order_price_1) ==
    IF NeZero(slippage)
    THEN Sub(order_amount, Mul(slippage, sell_order_price_1))
    ELSE Null

\* when(slippage != 0, (order_amount - slippage*sell_order_price_1) * -1)
sell_dollar_slippage(slippage, order_amount, sell_order_price_1) ==
    IF NeZero(slippage)
    THEN Mul(Sub(order_amount, Mul(slippage, sell_order_price_1)), lit(-1))
    ELSE Null

\* when(slippage != 0, ((desired_amount / slippage) - 1) * -1)
sell_percent_slippage(slippage, desired_amount) ==
    IF NeZero(slippage)
    THEN Mul(Sub(Div(desired_amount, slippage), lit(1)), lit(-1))
    ELSE Null

\* gated on the result instead of on slippage: a zero deviation goes missing
buy_currency_slippage_nonzero_only(slippage, desired_amount) ==
    IF NeZero(slippage) /\ NeZero(Sub(desired_amount, slippage))
    THEN Sub(desired_amount, slippage)
    ELSE Null

\* when(slippage != 0, desired_amount - slippage)
buy_currency_slippage(slippage, desired_amount) ==
    IF NeZero(slippage) THEN Sub(desired_amount, slippage) ELSE Null

\* when(slippage != 0, order_amount - slippage*buy_order_price_1)
buy_dollar_slippage(slippage, order_amount, buy_order_price_1) ==
    IF NeZero(slippage)
    THEN Sub(order_amount, Mul(slippage, buy_order_price_1))
    ELSE Null

\* the ratio taken the other way round
buy_percent_slippage_inverted(slippage, desired_amount) ==
    IF NeZero(slippage) THEN Sub(Div(slippage, desired_amount), lit(1)) ELSE Null

\* when(slippage != 0, (desired_amount / slippage) - 1)
buy_percent_slippage(slippage, desired_amount) ==
    IF NeZero(slippage) THEN Sub(Div(desired_amount, slippage), lit(1)) ELSE Null

\* row i of the bid ladder w (one ordered partition) after 6.2
BidRow(w, i, amount) ==
    LET r == w[i]
        order_amount == amount
        sell_order_price_1 == MaxOf({x.bid_price : x \in Range(w)})
        desired_amount == Div(order_amount, sell_order_price_1)
        cum_quantity == RunningSum([k \in 1..Len(w) |-> w[k].bid_quantity], i)
        cum_cost ==
            RunningSum([k \in 1..Len(w) |-> Mul(w[k].bid_quantity, w[k].bid_price)], i)
        slippage ==
            bid_slippage(order_amount, cum_cost, cum_quantity,
                         r.bid_quantity, r.bid_price)
    IN  [rid |-> r.rid,
         exchangeTimestamp |-> r.exchangeTimestamp,
         bid_price |-> r.bid_price,
         bid_quantity |-> r.bid_quantity,
         order_amount |-> order_amount,
         sell_order_price_1 |-> sell_order_price_1,
         desired_amount |-> desired_amount,
         cum_quantity |-> cum_quantity,
         cum_cost |-> cum_cost,
         slippage |-> slippage,
         sell_currency_slippage |-> sell_currency_slippage(slippage, desired_amount),
         sell_dollar_slippage |->
             sell_dollar_slippage(slippage, order_amount, sell_order_price_1),
         sell_percent_slippage |-> sell_percent_slippage(slippage, desired_amount)]

\* row i of the ask ladder w after 6.3
AskRow(w, i, amount) ==
    LET r == w[i]
        order_amount == amount
        buy_order_price_1 == MinOf({x.ask_price : x \in Range(w)})
        desired_amount == Div(order_amount, buy_order_price_1)
        cum_quantity == RunningSum([k \in 1..Len(w) |-> w[k].ask_quantity], i)
        cum_cost ==
            RunningSum([k \in 1..Len(w) |-> Mul(w[k].ask_quantity, w[k].ask_price)], i)
        slippage ==
            ask_slippage(order_amount, cum_cost, cum_quantity,
                         r.ask_quantity, r.ask_price)
    IN  [rid |-> r.rid,
         exchangeTimestamp |-> r.exchangeTimestamp,
         ask_price |-> r.ask_price,
         ask_quantity |-> r.ask_quantity,
         order_amount |-> order_amount,
         buy_order_price_1 |-> buy_order_price_1,
         desired_amount |-> desired_amount,
         cum_quantity |-> cum_quantity,
         cum_cost |-> cum_cost,
         slippage |-> slippage,
         buy_currency_slippage |-> buy_currency_slippage(slippage, desired_amount),
         buy_dollar_slippage |->
             buy_dollar_slippage(slippage, order_amount, buy_order_price_1),
         buy_percent_slippage |-> buy_percent_slippage(slippage, desired_amount)]

\* first(col, ignorenulls=True) over the rows of one group in the order the
\* engine delivers them: the first non-null value, NULL if there is none
RECURSIVE first(_)
first(vals) ==
    IF vals = <<>> THEN Null
    ELSE IF Head(vals) # Null THEN Head(vals)
    ELSE first(Tail(vals))

\* the six aggregated columns of one joined row
Metrics(j) ==
    <<j.ask.buy_currency_slippage, j.ask.buy_dollar_slippage,
      j.ask.buy_percent_slippage, j.bid.sell_currency_slippage,
      j.bid.sell_dollar_slippage, j.bid.sell_percent_slippage>>

\* last() where first() is meant, for the two dollar_slippage columns
RECURSIVE last(_)
last(vals) ==
    IF vals = <<>> THEN Null
    ELSE IF vals[Len(vals)] # Null THEN vals[Len(vals)]
    ELSE last(SubSeq(vals, 1, Len(vals) - 1))

FirstOf_dollar_last(g, c) ==
    IF c \in {2, 5}
    THEN last([k \in 1..Len(g) |-> Metrics(g[k])[c]])
    ELSE first([k \in 1..Len(g) |-> Metrics(g[k])[c]])

\* the c-th aggregate over the joined rows g, in the order they are delivered
FirstOf(g, c) == first([k \in 1..Len(g) |-> Metrics(g[k])[c]])

\* groupby("exchangeTimestamp").agg(first(...), ...) for one group, whose joined
\* rows arrive in the order g
Agg(ts, g) ==
    [exchangeTimestamp |-> ts,
     buy_currency_slippage |-> FirstOf(g, 1),
     buy_dollar_slippage |-> FirstOf(g, 2),
     buy_percent_slippage |-> FirstOf(g, 3),
     sell_currency_slippage |-> FirstOf(g, 4),
     sell_dollar_slippage |-> FirstOf(g, 5),
     sell_percent_slippage |-> FirstOf(g, 6)]

\* The engine fixes no order on the rows of a group after the join's shuffle.
\* Deliveries(G, <<>>) is every delivery order of the rows G, up to the rows that
\* cannot change an aggregate: a row is left out where each of its columns is
\* NULL or follows a non-null value of the same column.
RECURSIVE Deliveries(_, _)
Deliveries(G, g) ==
    LET C == {x \in G : \E c \in 1..6 :
                 Metrics(x)[c] # Null /\ FirstOf(g, c) = Null}
    IN  IF C = {} THEN {g}
        ELSE UNION {Deliveries(G \ {x}, Append(g, x)) : x \in C}

----------------------------------------------------------------------------
(* The ingested table.                                                     *)

\* a table holding the levels L, one row per level (the stored order of the
\* rows is never read by the notebook)
RECURSIVE AsTable(_)
AsTable(L) ==
    IF L = {} THEN <<>>
    ELSE LET Key(l) == (l.exchangeTimestamp * 2 + (IF l.isBid THEN 0 ELSE 1))
                           * (2 * MaxPrice) + l.price[1]
             x == CHOOSE l \in L : \A m \in L : Key(l) <= Key(m)
         IN  <<x>> \o AsTable(L \ {x})

Sides == {TRUE, FALSE}

\* One snapshot instant with a book of up to MaxLevels levels, at most one
\* level per price on each side (the shape of an exchange's snapshot).
DeepInputs ==
    UNION {{AsTable({[exchangeTimestamp |-> 1, isBid |-> k[1], price |-> lit(k[2]),
                      quantity |-> lit(q[k])] : k \in K}) :
               q \in [K -> 1..MaxQuantity]} :
            K \in {X \in SUBSET (Sides \X (1..MaxPrice)) : Cardinality(X) <= MaxLevels}}

\* Several snapshot instants, each with at most the top level of each side,
\* quoted at price 1.
SparseInputs ==
    UNION {{AsTable({[exchangeTimestamp |-> k[1], isBid |-> k[2], price |-> lit(1),
                      quantity |-> lit(q[k])] : k \in K}) :
               q \in [K -> 1..MaxQuantity]} :
            K \in SUBSET ((1..MaxTimestamp) \X Sides)}

\* One snapshot instant whose bid ladder mirrors its ask ladder: the same top
\* price b and, level by level, the same quantity at the offset d below b that
\* the ask level has above it.
MirroredInputs ==
    UNION {UNION {{AsTable({[exchangeTimestamp |-> 1, isBid |-> FALSE,
                              price |-> lit(b + d), quantity |-> lit(q[d])] :
                                 d \in D \cup {0}}
                           \cup
                           {[exchangeTimestamp |-> 1, isBid |-> TRUE,
                              price |-> lit(b - d), quantity |-> lit(q[d])] :
                                 d \in D \cup {0}}) :
                      q \in [D \cup {0} -> 1..MaxQuantity]} :
                   D \in SUBSET (1..(b - 1))} :
            b \in 1..MaxPrice}

\* The ask ladder [(1700.00, 400), (1700.50, 400), (1701.00, 400)] for a
\* notional of 1,000,000, against one bid level (1699.00, 1000).  Amounts are in
\* units of 100 and quantities in lots of 100 (notional 10,000, quantity 4), which
\* leaves prices, ratios and the rows' comparisons as they are.
ScenarioTrades ==
    <<[exchangeTimestamp |-> 1, isBid |-> TRUE, price |-> lit(1699),
       quantity |-> lit(10)],
      [exchangeTimestamp |-> 1, isBid |-> FALSE, price |-> lit(1700),
       quantity |-> lit(4)],
      [exchangeTimestamp |-> 1, isBid |-> FALSE, price |-> <<3401, 2>>,
       quantity |-> lit(4)],
      [exchangeTimestamp |-> 1, isBid |-> FALSE, price |-> lit(1701),
       quantity |-> lit(4)]>>

ScenarioAmount == lit(10000)

----------------------------------------------------------------------------
(* The notebook, one action per statement.                                 *)

Init ==
    /\ \/ /\ trades \in DeepInputs \cup SparseInputs \cup MirroredInputs
          /\ cost_basis \in {lit(a) : a \in 1..MaxAmount}
       \/ /\ trades = ScenarioTrades
          /\ cost_basis = ScenarioAmount
    /\ bid_book = {}
    /\ ask_book = {}
    /\ orderbook = {}
    /\ previous = {}
    /\ previous_trades = <<>>
    /\ runs = 1
    /\ pc = "transform"

\* 3. Data Transformation: the bid book and the ask book
DataTransformation ==
    /\ pc = "transform"
    /\ bid_book' =
           {[rid |-> i,
             exchangeTimestamp |-> trades[i].exchangeTimestamp,
             bid_price |-> trades[i].price,
             bid_quantity |-> trades[i].quantity] :
               i \in {j \in 1..Len(trades) : trades[j].isBid = TRUE}}
    /\ ask_book' =
           {[rid |-> i,
             exchangeTimestamp |-> trades[i].exchangeTimestamp,
             ask_price |-> trades[i].price,
             ask_quantity |-> trades[i].quantity] :
               i \in {j \in 1..Len(trades) : trades[j].isBid = FALSE}}
    /\ pc' = "bid"
    /\ UNCHANGED <<cost_basis, trades, orderbook, previous, previous_trades, runs>>

\* 6.2 Calculations for Bid Book
CalcBidBook ==
    /\ pc = "bid"
    /\ \E w \in Choices(Timestamps(bid_book),
                        [ts \in Timestamps(bid_book) |-> bid_window(bid_book, ts)]) :
          bid_book' =
              UNION {{BidRow(w[ts], i, cost_basis) : i \in 1..Len(w[ts])} :
                       ts \in Timestamps(bid_book)}
    /\ pc' = "ask"
    /\ UNCHANGED <<cost_basis, trades, ask_book, orderbook, previous, previous_trades, runs>>

\* 6.3 Calculations for Ask Book
CalcAskBook ==
    /\ pc = "ask"
    /\ \E w \in Choices(Timestamps(ask_book),
                        [ts \in Timestamps(ask_book) |-> ask_window(ask_book, ts)]) :
          ask_book' =
              UNION {{AskRow(w[ts], i, cost_basis) : i \in 1..Len(w[ts])} :
                       ts \in Timestamps(ask_book)}
    /\ pc' = "join"
    /\ UNCHANGED <<cost_basis, trades, bid_book, orderbook, previous, previous_trades, runs>>

\* 6.4 bid_book.join(ask_book, on='exchangeTimestamp', how='inner')
Join ==
    /\ pc = "join"
    /\ orderbook' =
           {[exchangeTimestamp |-> j[1].exchangeTimestamp, bid |-> j[1], ask |-> j[2]] :
               j \in {x \in bid_book \X ask_book :
                          x[1].exchangeTimestamp = x[2].exchangeTimestamp}}
    /\ pc' = "group"
    /\ UNCHANGED <<cost_basis, trades, bid_book, ask_book, previous, previous_trades, runs>>

\* the six columns selected from every joined row, with no groupby
GroupBy_per_row ==
    /\ pc = "group"
    /\ orderbook' = {Agg(j.exchangeTimestamp, <<j>>) : j \in orderbook}
    /\ pc' = "done"
    /\ UNCHANGED <<cost_basis, trades, bid_book, ask_book, previous, previous_trades, runs>>

\* 6.4 orderbook.groupby("exchangeTimestamp").agg(first(..., ignorenulls=True))
GroupBy ==
    /\ pc = "group"
    /\ \E g \in Choices(Timestamps(orderbook),
                        [ts \in Timestamps(orderbook) |->
                            Deliveries(timestampWindow(orderbook, ts), <<>>)]) :
          orderbook' = {Agg(ts, g[ts]) : ts \in Timestamps(orderbook)}
    /\ pc' = "done"
    /\ UNCHANGED <<cost_basis, trades, bid_book, ask_book, previous, previous_trades, runs>>

\* The notebook is run again on the same table and the same cost_basis; the
\* records of the run before are kept for comparison.
Rerun ==
    /\ pc = "done"
    /\ runs < MaxRuns
    /\ previous' = orderbook
    /\ previous_trades' = trades
    /\ runs' = runs + 1
    /\ bid_book' = {}
    /\ ask_book' = {}
    /\ orderbook' = {}
    /\ pc' = "transform"
    /\ UNCHANGED <<cost_basis, trades>>

Next ==
    \/ DataTransformation
    \/ CalcBidBook
    \/ CalcAskBook
    \/ Join
    \/ GroupBy

Spec == Init /\ [][Next]_vars

\* The notebook up to the end of 6.3: the two books with their calculated
\* columns, before they are joined.
NextBooks ==
    \/ DataTransformation
    \/ CalcBidBook
    \/ CalcAskBook

SpecBooks == Init /\ [][NextBooks]_vars

NextRerun ==
    \/ Next
    \/ Rerun

SpecRerun == Init /\ [][NextRerun]_vars

\* The source table is not deduplicated: one side of a snapshot may quote
\* several levels at one price.  One instant, up to MaxLevels levels of one
\* side at prices 1 and 2 (listed by price, then quantity) against a single
\* level (price 1, quantity 1) of the other side.
TiedInputs ==
    UNION {UNION {{<<[exchangeTimestamp |-> 1, isBid |-> ~side, price |-> lit(1),
                      quantity |-> lit(1)]>>
                   \o [i \in 1..n |->
                          [exchangeTimestamp |-> 1, isBid |-> side,
                           price |-> lit(l[i][1]), quantity |-> lit(l[i][2])]] :
                      l \in {x \in [1..n -> (1..2) \X (1..MaxQuantity)] :
                                \A i \in 1..(n - 1) :
                                    x[i][1] * (MaxQuantity + 1) + x[i][2]
                                        <= x[i + 1][1] * (MaxQuantity + 1) + x[i + 1][2]}} :
                   n \in 1..MaxLevels} :
            side \in Sides}

InitTies ==
    /\ trades \in TiedInputs
    /\ cost_basis \in {lit(a) : a \in 1..MaxAmount}
    /\ bid_book = {}
    /\ ask_book = {}
    /\ orderbook = {}
    /\ previous = {}
    /\ previous_trades = <<>>
    /\ runs = 1
    /\ pc = "transform"

SpecTies == InitTies /\ [][Next]_vars

\* the levels of a table, and a level the table may come to hold
Levels(t) == {t[i] : i \in 1..Len(t)}

NewLevels ==
    {[exchangeTimestamp |-> ts, isBid |-> b, price |-> lit(p), quantity |-> lit(q)] :
        ts \in 1..MaxTimestamp, b \in Sides, p \in 1..MaxPrice, q \in 1..MaxQuantity}

\* n can join the levels L: its side quotes no level at n's price at n's instant
Fits(n, L) ==
    \A l \in L : ~(/\ l.exchangeTimestamp = n.exchangeTimestamp
                   /\ l.isBid = n.isBid
                   /\ l.price = n.price)

\* The tables one step away from t: a level removed, a level added, or the
\* price or the quantity of a level changed.
Edits(t) ==
    LET L == Levels(t)
    IN  {AsTable(L \ {l}) : l \in L}
        \cup {AsTable(L \cup {n}) : n \in {x \in NewLevels : Fits(x, L)}}
        \cup UNION {{AsTable((L \ {l}) \cup {n}) :
                        n \in {x \in NewLevels :
                                  /\ x.exchangeTimestamp = l.exchangeTimestamp
                                  /\ x.isBid = l.isBid
                                  /\ x # l
                                  /\ Fits(x, L \ {l})}} : l \in L}

\* The notebook is run again with the same cost_basis after the stored table
\* has changed by one edit; the table and the records of the run before are
\* kept for comparison.
RerunOnEditedTable ==
    /\ pc = "done"
    /\ runs < MaxRuns
    /\ trades' \in Edits(trades)
    /\ previous' = orderbook
    /\ previous_trades' = trades
    /\ runs' = runs + 1
    /\ bid_book' = {}
    /\ ask_book' = {}
    /\ orderbook' = {}
    /\ pc' = "transform"
    /\ UNCHANGED cost_basis

NextEdited ==
    \/ Next
    \/ RerunOnEditedTable

SpecEdited == Init /\ [][NextEdited]_vars

\* The notebook validates neither the levels it reads nor cost_basis: the table
\* may hold levels whose price or quantity is zero or negative, and cost_basis
\* may be any number.  One snapshot instant, at most two levels, at most one
\* level per price on each side.
UnvalidatedInputs ==
    UNION {{AsTable({[exchangeTimestamp |-> 1, isBid |-> k[1], price |-> lit(k[2]),
                      quantity |-> lit(q[k])] : k \in K}) :
               q \in [K -> (-1)..MaxQuantity]} :
            K \in {X \in SUBSET (Sides \X ((-1)..(MaxPrice - 1))) : Cardinality(X) <= 2}}

InitUnvalidated ==
    /\ trades \in UnvalidatedInputs
    /\ cost_basis \in {lit(a) : a \in (-1)..MaxAmount}
    /\ bid_book = {}
    /\ ask_book = {}
    /\ orderbook = {}
    /\ previous = {}
    /\ previous_trades = <<>>
    /\ runs = 1
    /\ pc = "transform"

SpecUnvalidated == InitUnvalidated /\ [][Next]_vars

----------------------------------------------------------------------------
(* Vocabulary of the properties.                                           *)

BidReady == pc \in {"ask", "join", "group", "done"}
AskReady == pc \in {"join", "group", "done"}

Instants == {trades[i].exchangeTimestamp : i \in 1..Len(trades)}

BidLadder(ts) == timestampWindow(bid_book, ts)
AskLadder(ts) == timestampWindow(ask_book, ts)

\* the three metrics of a row of the bid book / of the ask book
SellMetrics(r) ==
    <<r.sell_currency_slippage, r.sell_dollar_slippage, r.sell_percent_slippage>>
BuyMetrics(r) ==
    <<r.buy_currency_slippage, r.buy_dollar_slippage, r.buy_percent_slippage>>

\* the three metrics of one side of a combined record
SellReported(rec) ==
    <<rec.sell_currency_slippage, rec.sell_dollar_slippage, rec.sell_percent_slippage>>
BuyReported(rec) ==
    <<rec.buy_currency_slippage, rec.buy_dollar_slippage, rec.buy_percent_slippage>>

NoFill == <<Null, Null, Null>>
Defined(m) == m[1] # Null /\ m[2] # Null /\ m[3] # Null

\* cumulative cost has reached the order amount at row r
Reaches(r) == Leq(r.order_amount, r.cum_cost)

\* the clearing rows of a ladder: the rows at which cumulative cost reaches the
\* order amount while it has not at any row walked before (a row walked before
\* has a smaller cumulative cost, levels being positive)
ClearingRows(ladder) ==
    {r \in ladder : Reaches(r) /\
        \A x \in ladder : Less(x.cum_cost, r.cum_cost) => ~Reaches(x)}

\* the rows at which cumulative cost first exceeds the order amount
CrossingRows(ladder) ==
    {r \in ladder : Less(r.order_amount, r.cum_cost) /\
        \A x \in ladder : Less(x.cum_cost, r.cum_cost) => ~Less(x.order_amount, x.cum_cost)}

\* the cost of all levels of one side at one instant, from the ingested table
RECURSIVE TotalCost(_, _, _)
TotalCost(ts, side, n) ==
    IF n = 0 THEN lit(0)
    ELSE IF trades[n].exchangeTimestamp = ts /\ trades[n].isBid = side
         THEN Add(TotalCost(ts, side, n - 1), Mul(trades[n].price, trades[n].quantity))
         ELSE TotalCost(ts, side, n - 1)

----------------------------------------------------------------------------
(* C1.  For every timestamp of the combined output and for each side, the  *)
(* three metrics reported are those computed at that side's clearing row   *)
(* (the first row in walk order at which cumulative cost reaches the order *)
(* amount), whatever the order in which first() visits the joined rows.    *)
(* The notebook does not guarantee this: every row after the crossing also *)
(* carries metrics and first() may deliver any of them.                    *)
C1_ReportedIsClearingRow ==
    pc = "done" =>
        \A rec \in orderbook :
            /\ \A r \in ClearingRows(BidLadder(rec.exchangeTimestamp)) :
                   SellReported(rec) = SellMetrics(r)
            /\ \A r \in ClearingRows(AskLadder(rec.exchangeTimestamp)) :
                   BuyReported(rec) = BuyMetrics(r)

(* C2.  In a ladder of positive levels with at least one row whose         *)
(* cum_cost >= order_amount, exactly one row carries defined metrics and   *)
(* every other row carries NoFill for all three.  The notebook's rows do   *)
(* not satisfy this.                                                       *)
C2_ExactlyOneDefinedRow ==
    /\ BidReady =>
           \A ts \in Timestamps(bid_book) :
               (\E r \in BidLadder(ts) : Reaches(r)) =>
                   \E r \in BidLadder(ts) :
                       /\ Defined(SellMetrics(r))
                       /\ \A x \in BidLadder(ts) \ {r} : SellMetrics(x) = NoFill
    /\ AskReady =>
           \A ts \in Timestamps(ask_book) :
               (\E r \in AskLadder(ts) : Reaches(r)) =>
                   \E r \in AskLadder(ts) :
                       /\ Defined(BuyMetrics(r))
                       /\ \A x \in AskLadder(ts) \ {r} : BuyMetrics(x) = NoFill

(* C3.  A timestamp is in the combined output iff both its bid ladder and  *)
(* its ask ladder have a clearing row, and every output record has all six *)
(* metrics defined.  The notebook joins before it reduces, so a timestamp  *)
(* with rows on both sides is output whether or not a side can fill.       *)
C3_OutputIffBothSidesClear ==
    pc = "done" =>
        /\ \A ts \in Instants :
               (ts \in Timestamps(orderbook)) <=>
                   (ClearingRows(BidLadder(ts)) # {} /\ ClearingRows(AskLadder(ts)) # {})
        /\ \A rec \in orderbook : Defined(BuyReported(rec)) /\ Defined(SellReported(rec))

(* C4.  Determinism: two runs of the notebook on the same table and the    *)
(* same order_amount produce identical combined records.  The notebook's   *)
(* first() over rows in engine order does not.                             *)
C4_RerunIdentical ==
    (pc = "done" /\ runs = 2) => orderbook = previous

(* C5.  Zero-slippage boundary: a single-level ladder whose price*quantity *)
(* equals order_amount yields a defined record with percent_slippage = 0.  *)
(* The notebook yields NULL there.                                        *)
C5_ExactSingleLevelIsZero ==
    /\ BidReady =>
           \A r \in bid_book :
               (BidLadder(r.exchangeTimestamp) = {r}
                   /\ Mul(r.bid_price, r.bid_quantity) = r.order_amount)
               => r.sell_percent_slippage = lit(0)
    /\ AskReady =>
           \A r \in ask_book :
               (AskLadder(r.exchangeTimestamp) = {r}
                   /\ Mul(r.ask_price, r.ask_quantity) = r.order_amount)
               => r.buy_percent_slippage = lit(0)

(* C6.  Sign convention on an ask ladder and the mirrored bid ladder.       *)

Positive(a) == a # Null /\ a[1] > 0
Negative(a) == a # Null /\ a[1] < 0

\* at instant ts the bid ladder mirrors the ask ladder (same top price, level by
\* level the same quantity at the reflected price, no price twice on a side),
\* both ladders have a row whose cumulative cost exceeds the order amount, and
\* the top level alone costs less than the order amount
MirroredCase(ts) ==
    LET B == BidLadder(ts)
        A == AskLadder(ts)
    IN  /\ B # {} /\ A # {}
        /\ \A a \in A : \E b \in B :
               /\ b.bid_quantity = a.ask_quantity
               /\ b.sell_order_price_1 = a.buy_order_price_1
               /\ Add(b.bid_price, a.ask_price) = Mul(lit(2), a.buy_order_price_1)
        /\ \A b \in B : \E a \in A :
               /\ b.bid_quantity = a.ask_quantity
               /\ Add(b.bid_price, a.ask_price) = Mul(lit(2), a.buy_order_price_1)
        /\ \A x, y \in A : x.ask_price = y.ask_price => x = y
        /\ \A x, y \in B : x.bid_price = y.bid_price => x = y
        /\ CrossingRows(B) # {} /\ CrossingRows(A) # {}
        /\ \A b \in B : b.bid_price = b.sell_order_price_1 => ~Reaches(b)
        /\ \A a \in A : a.ask_price = a.buy_order_price_1 => ~Reaches(a)

(* C6 as claimed: in the mirrored case the sell side's dollar_slippage is   *)
(* negative and the buy side's is positive at the clearing rows.            *)
C6_OppositeSigns ==
    AskReady =>
        \A ts \in Instants :
            MirroredCase(ts) =>
                \A b \in CrossingRows(BidLadder(ts)), a \in CrossingRows(AskLadder(ts)) :
                    Positive(a.buy_dollar_slippage) /\ Negative(b.sell_dollar_slippage)

(* C6 as amended: in the mirrored case the dollar_slippage at the first row *)
(* whose cum_cost exceeds order_amount is positive on the sell side as well *)
(* as on the buy side: the two have the same sign.                          *)
C6_SameSign ==
    AskReady =>
        \A ts \in Instants :
            MirroredCase(ts) =>
                \A b \in CrossingRows(BidLadder(ts)), a \in CrossingRows(AskLadder(ts)) :
                    Positive(a.buy_dollar_slippage) /\ Positive(b.sell_dollar_slippage)

C6_Witness ==
    AskReady /\ \E ts \in Instants :
        /\ MirroredCase(ts)
        /\ \E b \in CrossingRows(BidLadder(ts)) : Positive(b.sell_dollar_slippage)
        /\ \E a \in CrossingRows(AskLadder(ts)) : Positive(a.buy_dollar_slippage)

(* C7.  The ask ladder [(1700.00, 400), (1700.50, 400), (1701.00, 400)]    *)
(* with order_amount 1,000,000 (here in units of 100): cum_cost is 680,000 *)
(* after row 0 and 1,360,200 after row 1, row 1 and only row 1 carries     *)
(* metrics, Q = 400 + 320,000/1700.50, desired_amount = 1,000,000/1700 and *)
(* the buy percent_slippage reported is desired_amount/Q - 1 > 0.  The     *)
(* notebook also computes metrics at row 2 and may report those.           *)
C7_ScenarioRow1Only ==
    (trades = ScenarioTrades /\ cost_basis = ScenarioAmount /\ pc = "done") =>
        LET Q == Add(lit(4), Div(lit(3200), <<3401, 2>>))
            desired == Div(lit(10000), lit(1700))
        IN  /\ \A r \in ask_book :
                   /\ r.ask_price = lit(1700) => r.cum_cost = lit(6800)
                   /\ r.ask_price = <<3401, 2>> =>
                          r.cum_cost = lit(13602) /\ r.slippage = Q
                              /\ r.desired_amount = desired
                   /\ Defined(BuyMetrics(r)) <=> r.ask_price = <<3401, 2>>
            /\ \A rec \in orderbook :
                   /\ rec.buy_percent_slippage = Sub(Div(desired, Q), lit(1))
                   /\ Positive(rec.buy_percent_slippage)

(* C8.  Monotonicity: within every ladder of positive levels cum_quantity  *)
(* and cum_cost are non-decreasing along walk order (bids from the highest *)
(* price down, asks from the lowest price up).                             *)
C8_Monotone ==
    /\ BidReady =>
           \A x, y \in bid_book :
               (x.exchangeTimestamp = y.exchangeTimestamp
                   /\ Less(y.bid_price, x.bid_price))
               => Leq(x.cum_quantity, y.cum_quantity) /\ Leq(x.cum_cost, y.cum_cost)
    /\ AskReady =>
           \A x, y \in ask_book :
               (x.exchangeTimestamp = y.exchangeTimestamp
                   /\ Less(x.ask_price, y.ask_price))
               => Leq(x.cum_quantity, y.cum_quantity) /\ Leq(x.cum_cost, y.cum_cost)

C8_Witness ==
    AskReady /\ \E ts \in Instants :
        Cardinality(BidLadder(ts)) >= 2 /\ Cardinality(AskLadder(ts)) >= 2

(* C9.  Insufficient depth: when the total cost of a whole ladder is below *)
(* order_amount, no row of it reaches the order amount, every row carries  *)
(* NoFill, and the combined record of that timestamp (if any) has no       *)
(* defined value for that side's three metrics.                            *)
C9_InsufficientDepthNoFill ==
    /\ BidReady =>
           \A r \in bid_book :
               Less(TotalCost(r.exchangeTimestamp, TRUE, Len(trades)), cost_basis)
               => ~Reaches(r) /\ SellMetrics(r) = NoFill
    /\ AskReady =>
           \A r \in ask_book :
               Less(TotalCost(r.exchangeTimestamp, FALSE, Len(trades)), cost_basis)
               => ~Reaches(r) /\ BuyMetrics(r) = NoFill
    /\ pc = "done" =>
           \A rec \in orderbook :
               /\ Less(TotalCost(rec.exchangeTimestamp, TRUE, Len(trades)), cost_basis)
                  => SellReported(rec) = NoFill
               /\ Less(TotalCost(rec.exchangeTimestamp, FALSE, Len(trades)), cost_basis)
                  => BuyReported(rec) = NoFill

C9_Witness ==
    pc = "done" /\ \E rec \in orderbook :
        /\ Less(TotalCost(rec.exchangeTimestamp, TRUE, Len(trades)), cost_basis)
        /\ SellReported(rec) = NoFill
        /\ Defined(BuyReported(rec))

(* C10.  When more than one row of a (timestamp, side) ladder carries a    *)
(* defined value, the reduction reports an error for that partition and    *)
(* returns none of the values.  The notebook returns one of them.          *)
C10_AmbiguousNotReported ==
    pc = "done" =>
        \A rec \in orderbook :
            /\ Cardinality({r \in BidLadder(rec.exchangeTimestamp) :
                               Defined(SellMetrics(r))}) > 1
               => SellReported(rec) = NoFill
            /\ Cardinality({r \in AskLadder(rec.exchangeTimestamp) :
                               Defined(BuyMetrics(r))}) > 1
               => BuyReported(rec) = NoFill

(* C11.  A book level with non-positive price or non-positive quantity is   *)
(* rejected when the ladders are built: it never enters a ladder, and the   *)
(* top-of-book price of a ladder is never taken from it.  The notebook      *)
(* filters on isBid alone and keeps every level.                            *)
C11_MalformedLevelRejected ==
    /\ pc # "transform" =>
           /\ \A r \in bid_book : Positive(r.bid_price) /\ Positive(r.bid_quantity)
           /\ \A r \in ask_book : Positive(r.ask_price) /\ Positive(r.ask_quantity)
    /\ BidReady => \A r \in bid_book : Positive(r.sell_order_price_1)
    /\ AskReady => \A r \in ask_book : Positive(r.buy_order_price_1)

(* C12.  A non-positive order_amount (cost_basis <= 0) is rejected before   *)
(* any ladder is walked: no row of either book carries a metric and no      *)
(* combined record is produced for any timestamp.  The notebook walks the   *)
(* ladders with whatever cost_basis holds.                                  *)
C12_InvalidConfigurationRejected ==
    ~Positive(cost_basis) =>
        /\ BidReady => \A r \in bid_book : SellMetrics(r) = NoFill
        /\ AskReady => \A r \in ask_book : BuyMetrics(r) = NoFill
        /\ pc = "done" => orderbook = {}

(* C13.  Crossing test: row i of a ladder carries defined metrics if and    *)
(* only if cum_cost_i >= order_amount and cum_cost_{i-1} < order_amount     *)
(* (cum_cost_{-1} = 0): the comparison at row i is non-strict and the row   *)
(* before is part of the test.  The notebook tests order_amount - cum_cost  *)
(* < 0 at row i alone.                                                      *)
C13_CrossingTest ==
    /\ BidReady =>
           \A r \in bid_book :
               Defined(SellMetrics(r)) <=> r \in ClearingRows(BidLadder(r.exchangeTimestamp))
    /\ AskReady =>
           \A r \in ask_book :
               Defined(BuyMetrics(r)) <=> r \in ClearingRows(AskLadder(r.exchangeTimestamp))

(* C14.  At the clearing row i the slippage quantity is                     *)
(* Q = (cum_quantity_i - quantity_i) + remaining/price_i with remaining =   *)
(* order_amount - (cum_cost_i - price_i*quantity_i); equivalently           *)
(* Q*price_i = cum_quantity_{i-1}*price_i + order_amount - cum_cost_{i-1}:  *)
(* the rows before in full plus the partial fill cost order_amount.  The    *)
(* notebook's slippage column is 0 at a clearing row whose cum_cost equals  *)
(* order_amount.                                                            *)
FillQuantity(order_amount, cum_cost, cum_quantity, quantity, price) ==
    LET remaining == Sub(order_amount, Sub(cum_cost, Mul(price, quantity)))
    IN  Add(Sub(cum_quantity, quantity), Div(remaining, price))

C14_SlippageQuantity ==
    /\ BidReady =>
           \A ts \in Timestamps(bid_book) : \A r \in ClearingRows(BidLadder(ts)) :
               /\ r.slippage = FillQuantity(r.order_amount, r.cum_cost, r.cum_quantity,
                                            r.bid_quantity, r.bid_price)
               /\ Mul(r.slippage, r.bid_price) =
                      Sub(Add(Mul(Sub(r.cum_quantity, r.bid_quantity), r.bid_price),
                              r.order_amount),
                          Sub(r.cum_cost, Mul(r.bid_price, r.bid_quantity)))
    /\ AskReady =>
           \A ts \in Timestamps(ask_book) : \A r \in ClearingRows(AskLadder(ts)) :
               /\ r.slippage = FillQuantity(r.order_amount, r.cum_cost, r.cum_quantity,
                                            r.ask_quantity, r.ask_price)
               /\ Mul(r.slippage, r.ask_price) =
                      Sub(Add(Mul(Sub(r.cum_quantity, r.ask_quantity), r.ask_price),
                              r.order_amount),
                          Sub(r.cum_cost, Mul(r.ask_price, r.ask_quantity)))

(* C15.  Derived metrics: at a row with slippage quantity Q the buy side    *)
(* reports currency_slippage = desired_amount - Q, dollar_slippage =        *)
(* order_amount - Q*best_price and percent_slippage = desired_amount/Q - 1, *)
(* and the sell side reports the negation of each of the three, evaluated   *)
(* on the bid ladder, where desired_amount = order_amount/best_price.       *)
C15_DerivedMetrics ==
    /\ BidReady =>
           \A r \in bid_book :
               NeZero(r.slippage) =>
                   LET Q == r.slippage
                       desired_amount == Div(r.order_amount, r.sell_order_price_1)
                   IN  /\ r.desired_amount = desired_amount
                       /\ r.sell_currency_slippage = Neg(Sub(desired_amount, Q))
                       /\ r.sell_dollar_slippage =
                              Neg(Sub(r.order_amount, Mul(Q, r.sell_order_price_1)))
                       /\ r.sell_percent_slippage =
                              Neg(Sub(Div(desired_amount, Q), lit(1)))
    /\ AskReady =>
           \A r \in ask_book :
               NeZero(r.slippage) =>
                   LET Q == r.slippage
                       desired_amount == Div(r.order_amount, r.buy_order_price_1)
                   IN  /\ r.desired_amount = desired_amount
                       /\ r.buy_currency_slippage = Sub(desired_amount, Q)
                       /\ r.buy_dollar_slippage =
                              Sub(r.order_amount, Mul(Q, r.buy_order_price_1))
                       /\ r.buy_percent_slippage = Sub(Div(desired_amount, Q), lit(1))

C15_Witness ==
    /\ AskReady
    /\ \E r \in bid_book : NeZero(r.slippage) /\ Positive(r.sell_percent_slippage)
    /\ \E r \in ask_book : NeZero(r.slippage) /\ Positive(r.buy_percent_slippage)

(* C16.  Exact match: if cum_cost_i = order_amount exactly at row i (and    *)
(* cum_cost_{i-1} < order_amount), row i is the clearing row with           *)
(* remaining = 0 and Q = cum_quantity_i, and the side's record is defined   *)
(* (not NoFill), also when row i is the last row of the ladder.  The        *)
(* notebook's strict test leaves the slippage column at 0 there.            *)
C16_ExactMatchDefined ==
    /\ BidReady =>
           \A ts \in Timestamps(bid_book) : \A r \in ClearingRows(BidLadder(ts)) :
               r.cum_cost = r.order_amount =>
                   r.slippage = r.cum_quantity /\ Defined(SellMetrics(r))
    /\ AskReady =>
           \A ts \in Timestamps(ask_book) : \A r \in ClearingRows(AskLadder(ts)) :
               r.cum_cost = r.order_amount =>
                   r.slippage = r.cum_quantity /\ Defined(BuyMetrics(r))
    /\ pc = "done" =>
           \A rec \in orderbook :
               /\ (\E r \in ClearingRows(BidLadder(rec.exchangeTimestamp)) :
                       r.cum_cost = r.order_amount)
                  => Defined(SellReported(rec))
               /\ (\E r \in ClearingRows(AskLadder(rec.exchangeTimestamp)) :
                       r.cum_cost = r.order_amount)
                  => Defined(BuyReported(rec))

(* C17.  Positive means adverse on both sides: for ladders of positive     *)
(* levels in sort order, every metric value that reaches the combined       *)
(* output is >= 0, for all six metrics and every output timestamp.  The     *)
(* notebook also computes metrics at the rows after the crossing, where     *)
(* they can be negative, and first() may report those.                      *)
NonNegative(a) == a # Null => a[1] >= 0

C17_ReportedNonNegative ==
    pc = "done" =>
        \A rec \in orderbook :
            /\ \A c \in 1..3 : NonNegative(BuyReported(rec)[c])
            /\ \A c \in 1..3 : NonNegative(SellReported(rec)[c])

(* C18.  Ladder order and top of book: within one timestamp the bid ladder  *)
(* is walked in descending and the ask ladder in ascending price order, the *)
(* best_price used for every row (max bid price / min ask price of the      *)
(* timestamp) equals the price of row 0 in walk order, and desired_amount = *)
(* order_amount/best_price is the same for all rows of a ladder.  A row is  *)
(* walked before another when its cum_quantity is smaller, and row 0 is the *)
(* row whose cum_quantity is its own quantity.                              *)
C18_LadderOrderAndTop ==
    /\ BidReady =>
           \A x, y \in bid_book :
               x.exchangeTimestamp = y.exchangeTimestamp =>
                   /\ Less(x.cum_quantity, y.cum_quantity) => Leq(y.bid_price, x.bid_price)
                   /\ x.sell_order_price_1 = y.sell_order_price_1
                   /\ x.desired_amount = y.desired_amount
                   /\ x.cum_quantity = x.bid_quantity =>
                          /\ y.sell_order_price_1 = x.bid_price
                          /\ y.desired_amount = Div(y.order_amount, x.bid_price)
    /\ AskReady =>
           \A x, y \in ask_book :
               x.exchangeTimestamp = y.exchangeTimestamp =>
                   /\ Less(x.cum_quantity, y.cum_quantity) => Leq(x.ask_price, y.ask_price)
                   /\ x.buy_order_price_1 = y.buy_order_price_1
                   /\ x.desired_amount = y.desired_amount
                   /\ x.cum_quantity = x.ask_quantity =>
                          /\ y.buy_order_price_1 = x.ask_price
                          /\ y.desired_amount = Div(y.order_amount, x.ask_price)

C18_Witness ==
    AskReady /\ \E ts \in Instants :
        /\ \E x, y \in BidLadder(ts) :
               /\ x.cum_quantity = x.bid_quantity
               /\ Less(y.bid_price, x.bid_price)
               /\ y.sell_order_price_1 = x.bid_price
        /\ \E x, y \in AskLadder(ts) :
               /\ x.cum_quantity = x.ask_quantity
               /\ Less(x.ask_price, y.ask_price)
               /\ y.buy_order_price_1 = x.ask_price

(* C20.  In every ladder of positive levels the rows at which the crossing  *)
(* condition order_amount - cum_cost < 0 is true form a suffix of the       *)
(* ladder in walk order (bids from the highest price down, asks from the    *)
(* lowest price up): once it holds at a row it holds at every later row,    *)
(* and it holds at no row before the first row whose cum_cost exceeds       *)
(* order_amount.                                                            *)
CrossingCondition(r) == LtZero(Sub(r.order_amount, r.cum_cost))

C20_ConditionSuffix ==
    /\ BidReady =>
           \A x \in bid_book :
               CrossingCondition(x) =>
                   /\ \A y \in BidLadder(x.exchangeTimestamp) :
                          Less(y.bid_price, x.bid_price) => CrossingCondition(y)
                   /\ \E c \in CrossingRows(BidLadder(x.exchangeTimestamp)) :
                          Leq(x.bid_price, c.bid_price)
    /\ AskReady =>
           \A x \in ask_book :
               CrossingCondition(x) =>
                   /\ \A y \in AskLadder(x.exchangeTimestamp) :
                          Less(x.ask_price, y.ask_price) => CrossingCondition(y)
                   /\ \E c \in CrossingRows(AskLadder(x.exchangeTimestamp)) :
                          Leq(c.ask_price, x.ask_price)

C20_Witness ==
    AskReady /\ \E ts \in Instants :
        /\ \E x, y, z \in BidLadder(ts) :
               /\ Less(y.bid_price, x.bid_price) /\ Less(z.bid_price, y.bid_price)
               /\ ~CrossingCondition(x) /\ CrossingCondition(y) /\ CrossingCondition(z)
        /\ \E x, y \in AskLadder(ts) :
               /\ Less(x.ask_price, y.ask_price)
               /\ ~CrossingCondition(x) /\ CrossingCondition(y)

(* C19.  Partition independence: the combined record of timestamp T (its   *)
(* presence and its six values) depends only on the levels whose timestamp  *)
(* is T: adding, removing or changing levels of another timestamp leaves    *)
(* T's record unchanged; and T's buy-side values do not change when only    *)
(* the bid levels of T change their prices or quantities, and symmetrically *)
(* for the sell-side values and the ask levels.  In the notebook the values *)
(* reported for T are those of whichever row first() meets first, which is  *)
(* not a function of T's levels.                                            *)
LevelsAt(t, ts, side) ==
    {l \in Levels(t) : l.exchangeTimestamp = ts /\ l.isBid = side}

C19_PartitionIndependence ==
    (pc = "done" /\ runs > 1) =>
        \A ts \in 1..MaxTimestamp :
            LET now == timestampWindow(orderbook, ts)
                before == timestampWindow(previous, ts)
                sameBids == LevelsAt(trades, ts, TRUE) = LevelsAt(previous_trades, ts, TRUE)
                sameAsks == LevelsAt(trades, ts, FALSE) = LevelsAt(previous_trades, ts, FALSE)
            IN  /\ (sameBids /\ sameAsks) => now = before
                /\ sameAsks =>
                       \A x \in now, y \in before : BuyReported(x) = BuyReported(y)
                /\ sameBids =>
                       \A x \in now, y \in before : SellReported(x) = SellReported(y)

(* C21.  At the first row i of a ladder of positive levels where           *)
(* cum_cost_i > order_amount (order_amount > 0) the slippage quantity       *)
(* satisfies cum_quantity_{i-1} <= Q < cum_quantity_i (cum_quantity_{-1} =  *)
(* 0) and Q > 0: the partial fill at row i is within [0, quantity_i) and Q  *)
(* never equals the 0 the notebook uses as its no-fill sentinel.            *)
C21_FillWithinLevel ==
    /\ BidReady =>
           \A ts \in Timestamps(bid_book) : \A r \in CrossingRows(BidLadder(ts)) :
               /\ Leq(Sub(r.cum_quantity, r.bid_quantity), r.slippage)
               /\ Less(r.slippage, r.cum_quantity)
               /\ Positive(r.slippage)
    /\ AskReady =>
           \A ts \in Timestamps(ask_book) : \A r \in CrossingRows(AskLadder(ts)) :
               /\ Leq(Sub(r.cum_quantity, r.ask_quantity), r.slippage)
               /\ Less(r.slippage, r.cum_quantity)
               /\ Positive(r.slippage)

C21_Witness ==
    AskReady /\ \E ts \in Instants :
        /\ \E r \in CrossingRows(BidLadder(ts)) :
               /\ Less(r.bid_quantity, r.cum_quantity)
               /\ Less(Sub(r.cum_quantity, r.bid_quantity), r.slippage)
        /\ \E r \in CrossingRows(AskLadder(ts)) :
               /\ Less(r.ask_quantity, r.cum_quantity)
               /\ Less(Sub(r.cum_quantity, r.ask_quantity), r.slippage)

(* C22.  Tie-order independence: when a ladder holds several levels at one *)
(* price, the slippage quantity Q computed at the first row where cum_cost  *)
(* exceeds order_amount is the same for every relative order in which the   *)
(* equal-price rows are walked.  The rows of the book were computed under   *)
(* one order; they are compared with every order the window admits.         *)
BidLevels(ts) ==
    {[rid |-> r.rid, exchangeTimestamp |-> r.exchangeTimestamp,
      bid_price |-> r.bid_price, bid_quantity |-> r.bid_quantity] : r \in BidLadder(ts)}

AskLevels(ts) ==
    {[rid |-> r.rid, exchangeTimestamp |-> r.exchangeTimestamp,
      ask_price |-> r.ask_price, ask_quantity |-> r.ask_quantity] : r \in AskLadder(ts)}

\* cum_cost at row i of the levels walked in the order w
BidCumCost(w, i) ==
    RunningSum([k \in 1..Len(w) |-> Mul(w[k].bid_quantity, w[k].bid_price)], i)

AskCumCost(w, i) ==
    RunningSum([k \in 1..Len(w) |-> Mul(w[k].ask_quantity, w[k].ask_price)], i)

\* the slippage quantity at the first row of the order w at which cum_cost
\* exceeds the order amount (no value if there is no such row)
BidCrossingQ(w) ==
    {BidRow(w, i, cost_basis).slippage :
        i \in {k \in 1..Len(w) :
                  /\ Less(cost_basis, BidCumCost(w, k))
                  /\ \A j \in 1..(k - 1) : ~Less(cost_basis, BidCumCost(w, j))}}

AskCrossingQ(w) ==
    {AskRow(w, i, cost_basis).slippage :
        i \in {k \in 1..Len(w) :
                  /\ Less(cost_basis, AskCumCost(w, k))
                  /\ \A j \in 1..(k - 1) : ~Less(cost_basis, AskCumCost(w, j))}}

\* checked on the state each calculation leaves: the bid book after 6.2, the
\* ask book after 6.3
C22_TieOrderIndependent ==
    /\ pc = "ask" =>
           \A ts \in Timestamps(bid_book) : \A w \in DescByBidPrice(BidLevels(ts)) :
               BidCrossingQ(w) = {r.slippage : r \in CrossingRows(BidLadder(ts))}
    /\ pc = "join" =>
           \A ts \in Timestamps(ask_book) : \A w \in AscByAskPrice(AskLevels(ts)) :
               AskCrossingQ(w) = {r.slippage : r \in CrossingRows(AskLadder(ts))}

\* a ladder whose crossing row depends on the order of two equal-price rows
C22_Witness ==
    pc = "join" /\ \E ts \in Instants :
        \E r \in CrossingRows(AskLadder(ts)) :
            \E x \in AskLadder(ts) :
                /\ x # r
                /\ x.ask_price = r.ask_price
                /\ x.ask_quantity # r.ask_quantity
                /\ Less(x.cum_cost, r.cum_cost)
                /\ Less(Sub(r.cum_cost, Mul(x.ask_price, x.ask_quantity)), r.order_amount)

(* C23.  Within one combined record the three metrics of one side are      *)
(* consistent with a single ladder row: they are all defined or all missing *)
(* together, and when defined they are the metrics of one row of that       *)
(* side's ladder, with dollar_slippage = currency_slippage * best_price and *)
(* percent_slippage * Q = currency_slippage for that row's slippage         *)
(* quantity Q.                                                              *)
C23_OneRowPerSide ==
    pc = "done" =>
        \A rec \in orderbook :
            /\ SellReported(rec) = NoFill \/ Defined(SellReported(rec))
            /\ BuyReported(rec) = NoFill \/ Defined(BuyReported(rec))
            /\ Defined(SellReported(rec)) =>
                   \E r \in BidLadder(rec.exchangeTimestamp) :
                       /\ SellReported(rec) = SellMetrics(r)
                       /\ rec.sell_dollar_slippage =
                              Mul(rec.sell_currency_slippage, r.sell_order_price_1)
                       /\ Mul(rec.sell_percent_slippage, r.slippage) =
                              rec.sell_currency_slippage
            /\ Defined(BuyReported(rec)) =>
                   \E r \in AskLadder(rec.exchangeTimestamp) :
                       /\ BuyReported(rec) = BuyMetrics(r)
                       /\ rec.buy_dollar_slippage =
                              Mul(rec.buy_currency_slippage, r.buy_order_price_1)
                       /\ Mul(rec.buy_percent_slippage, r.slippage) =
                              rec.buy_currency_slippage

\* a record whose side had two rows with different defined metrics to choose from
C23_Witness ==
    pc = "done" /\ \E rec \in orderbook :
        /\ Defined(SellReported(rec))
        /\ Defined(BuyReported(rec))
        /\ \E x, y \in AskLadder(rec.exchangeTimestamp) :
               /\ Defined(BuyMetrics(x)) /\ Defined(BuyMetrics(y))
               /\ BuyMetrics(x) # BuyMetrics(y)
               /\ BuyReported(rec) = BuyMetrics(y)
               /\ Less(x.cum_cost, y.cum_cost)

(* C24.  Top-level fill: if the top-of-book level alone costs more than    *)
(* order_amount (price_0*quantity_0 > order_amount), row 0 computes         *)
(* Q = order_amount/best_price = desired_amount, and row 0's currency,      *)
(* dollar and percent slippage are all exactly 0, reported as defined       *)
(* values (not as missing).  Row 0 is the row whose cum_quantity is its own *)
(* quantity.                                                                *)
ZeroDeviation == <<lit(0), lit(0), lit(0)>>

C24_TopLevelFill ==
    /\ BidReady =>
           \A r \in bid_book :
               (/\ r.cum_quantity = r.bid_quantity
                /\ Less(r.order_amount, Mul(r.bid_price, r.bid_quantity)))
               => /\ r.slippage = Div(r.order_amount, r.sell_order_price_1)
                  /\ r.slippage = r.desired_amount
                  /\ SellMetrics(r) = ZeroDeviation
    /\ AskReady =>
           \A r \in ask_book :
               (/\ r.cum_quantity = r.ask_quantity
                /\ Less(r.order_amount, Mul(r.ask_price, r.ask_quantity)))
               => /\ r.slippage = Div(r.order_amount, r.buy_order_price_1)
                  /\ r.slippage = r.desired_amount
                  /\ BuyMetrics(r) = ZeroDeviation

C24_Witness ==
    /\ AskReady
    /\ \E r \in bid_book :
           /\ r.cum_quantity = r.bid_quantity
           /\ Less(r.order_amount, Mul(r.bid_price, r.bid_quantity))
           /\ SellMetrics(r) = ZeroDeviation
    /\ \E r \in ask_book :
           /\ r.cum_quantity = r.ask_quantity
           /\ Less(r.order_amount, Mul(r.ask_price, r.ask_quantity))
           /\ BuyMetrics(r) = ZeroDeviation
           /\ \E x \in AskLadder(r.exchangeTimestamp) : Less(r.ask_price, x.ask_price)

(* C25.  The combined output holds at most one record per timestamp,       *)
(* however many rows the bid and ask ladders of the timestamp have and      *)
(* however many rows the per-row inner join produces for it.                *)
C25_OneRecordPerTimestamp ==
    pc = "done" =>
        /\ \A x, y \in orderbook : x.exchangeTimestamp = y.exchangeTimestamp => x = y
        /\ Cardinality(orderbook) = Cardinality(Timestamps(orderbook))

\* a record of a timestamp whose join produced four rows or more, with
\* different values among them
C25_Witness ==
    pc = "done" /\ \E rec \in orderbook :
        /\ Cardinality(BidLadder(rec.exchangeTimestamp)) >= 2
        /\ Cardinality(AskLadder(rec.exchangeTimestamp)) >= 2
        /\ \E x, y \in AskLadder(rec.exchangeTimestamp) : BuyMetrics(x) # BuyMetrics(y)

====
